---------------------------- MODULE Spec2Model ----------------------------
(***************************************************************************)
(* State-machine model of the news-summary pipeline:                       *)
(*   model.py    NewsPipeline.forward, _normalize_category,                *)
(*               _extract_metadata                                         *)
(*   main.py     load_pipeline, process_records                            *)
(*   utils.py    JsonlWriter                                               *)
(*   optimize.py load_training_examples, evaluation_metric, main           *)
(*                                                                         *)
(* A Python str is a sequence of characters.  TLA+ string literals are     *)
(* ASCII only, so each Chinese character is written as its pinyin          *)
(* syllable: yan1 jiu qian yan2 = research frontier, chan ye ying yong =   *)
(* industry application, zheng ce ji hua = policy plan, qi ta = other.     *)
(* Python's None is the one-element sequence NoneValue, which no str       *)
(* equals because "<None>" is not a character.                             *)
(***************************************************************************)
EXTENDS Integers, Sequences, FiniteSets, TLC

\* ------------------------------------------------------------------------
\* Bounds of the model
\* ------------------------------------------------------------------------

\* Longest raw classifier label, counted in pieces of LabelPieces.
MaxPieces == 3
\* Longest input batch handed to process_records.
MaxRecords == 2
\* Largest example.json list handed to the optimizer.
MaxExamples == 5
\* Most demonstrations a saved best_pipeline.json holds.
MaxSavedDemos == 1

\* ------------------------------------------------------------------------
\* Python values
\* ------------------------------------------------------------------------

NoneValue == <<"<None>">>

EmptyStr == <<>>

\* str.isspace() of one character.
IsSpace(c) == c \in {" ", "\n", "\t"}

RECURSIVE lstrip(_)
lstrip(s) ==
  IF s = EmptyStr THEN EmptyStr
  ELSE IF IsSpace(Head(s)) THEN lstrip(Tail(s))
  ELSE s

RECURSIVE rstrip(_)
rstrip(s) ==
  IF s = EmptyStr THEN EmptyStr
  ELSE IF IsSpace(s[Len(s)]) THEN rstrip(SubSeq(s, 1, Len(s) - 1))
  ELSE s

\* str.strip(): leading and trailing whitespace removed.
strip(s) == rstrip(lstrip(s))

\* Python truthiness of an Optional[str]: None and "" are falsy.
Truthy(v) == v # NoneValue /\ v # EmptyStr

\* `target in category` on str: target occurs at some offset of category.
StartsWithAt(s, t, k) ==
  /\ k + Len(t) - 1 <= Len(s)
  /\ \A j \in 1..Len(t) : s[k + j - 1] = t[j]

RECURSIVE FindFrom(_, _, _)
FindFrom(s, t, k) ==
  IF k + Len(t) - 1 > Len(s) THEN FALSE
  ELSE IF StartsWithAt(s, t, k) THEN TRUE
  ELSE FindFrom(s, t, k + 1)

StrIn(t, s) == FindFrom(s, t, 1)

\* dict.get(key, default) on a mapping modelled as a function.
DictGet(d, key, default) == IF key \in DOMAIN d THEN d[key] ELSE default

\* ------------------------------------------------------------------------
\* model.py
\* ------------------------------------------------------------------------

YanJiuQianYan == <<"yan1", "jiu", "qian", "yan2">>
ChanYeYingYong == <<"chan", "ye", "ying", "yong">>
ZhengCeJiHua == <<"zheng", "ce", "ji", "hua">>
QiTa == <<"qi", "ta">>

TARGET_CATEGORIES == <<YanJiuQianYan, ChanYeYingYong, ZhengCeJiHua>>

TargetSet == {TARGET_CATEGORIES[k] : k \in 1..Len(TARGET_CATEGORIES)}

\* The for loop of _normalize_category from the k-th target on.
RECURSIVE ScanTargets(_, _)
ScanTargets(category, k) ==
  IF k > Len(TARGET_CATEGORIES) THEN QiTa
  ELSE IF StrIn(TARGET_CATEGORIES[k], category) THEN TARGET_CATEGORIES[k]
  ELSE ScanTargets(category, k + 1)

\* The same loop run from the last target to the first.
RECURSIVE ScanTargetsReversed(_, _)
ScanTargetsReversed(category, k) ==
  IF k < 1 THEN QiTa
  ELSE IF StrIn(TARGET_CATEGORIES[k], category) THEN TARGET_CATEGORIES[k]
  ELSE ScanTargetsReversed(category, k - 1)

\* A faulty variant of _normalize_category: the priority order is reversed.
normalize_category_reversed(category) ==
  IF ~Truthy(category) THEN QiTa
  ELSE ScanTargetsReversed(strip(category), Len(TARGET_CATEGORIES))

_normalize_category(category) ==
  IF ~Truthy(category) THEN QiTa
  ELSE ScanTargets(strip(category), 1)

MetaKeys == {"raw_content", "release_time", "source_institution", "url"}

\* A faulty variant of _extract_metadata: without metadata raw_content is None too.
extract_metadata_no_fallback(metadata, fallback_content) ==
  IF metadata.kind = "None"
  THEN [raw_content |-> NoneValue, release_time |-> NoneValue,
        source_institution |-> NoneValue, url |-> NoneValue]
  ELSE [raw_content |->
          DictGet(metadata.fields, "raw_content", fallback_content),
        release_time |-> DictGet(metadata.fields, "release_time", NoneValue),
        source_institution |->
          DictGet(metadata.fields, "source_institution", NoneValue),
        url |-> DictGet(metadata.fields, "url", NoneValue)]

\* metadata is [kind |-> "None"], [kind |-> "NewsMetadata", fields |-> f]
\* with f defined on all of MetaKeys (asdict), or [kind |-> "Mapping",
\* fields |-> f] with f defined on any set of keys (dict(metadata)).
_extract_metadata(metadata, fallback_content) ==
  IF metadata.kind = "None"
  THEN [raw_content |-> fallback_content, release_time |-> NoneValue,
        source_institution |-> NoneValue, url |-> NoneValue]
  ELSE [raw_content |->
          DictGet(metadata.fields, "raw_content", fallback_content),
        release_time |-> DictGet(metadata.fields, "release_time", NoneValue),
        source_institution |->
          DictGet(metadata.fields, "source_institution", NoneValue),
        url |-> DictGet(metadata.fields, "url", NoneValue)]

\* A faulty variant of the gate: every article is let through.
GateAcceptsAll(category) == TRUE

\* `normalized_category not in TARGET_CATEGORIES` negated (forward, line 73).
GateAccepts(category) == category \in TargetSet

\* A faulty variant of the assembly: the extractor's outputs are not stripped.
AssembleUnstripped(category, extraction) ==
  [category |-> category,
   title |-> extraction.title,
   short_summary |-> extraction.short_summary,
   detailed_summary |-> extraction.detailed_summary]

\* The result dict of forward before the metadata is merged in (lines 77-82).
Assemble(category, extraction) ==
  [category |-> category,
   title |-> strip(extraction.title),
   short_summary |-> strip(extraction.short_summary),
   detailed_summary |-> strip(extraction.detailed_summary)]

\* result.update(other): the keys of other are added to result.
DictUpdate(result, other) ==
  [k \in DOMAIN result \cup DOMAIN other |->
     IF k \in DOMAIN other THEN other[k] ELSE result[k]]

\* What forward returns: None, or a dict.
ReturnNone == [isNone |-> TRUE]
ReturnDict(d) == [isNone |-> FALSE, dict |-> d]

\* ------------------------------------------------------------------------
\* utils.py: JsonlWriter.  A sink is the writer's _fp together with the
\* three places a written line can be: the file object's buffer, the
\* operating system's cache, and the storage device.
\* ------------------------------------------------------------------------

\* json.dumps(record) + "\n": a line is complete when its newline is there.
JsonLine(record) == [json |-> record, newline |-> TRUE]

\* A line cut short by a failed write.
TornLine(record) == [json |-> record, newline |-> FALSE]

ClosedSink(disk) ==
  [fp |-> "None", buffer |-> <<>>, cache |-> <<>>, disk |-> disk]

\* __enter__: open(..., "w") truncates the file.
writer_enter(s) ==
  [fp |-> "open", buffer |-> <<>>, cache |-> <<>>, disk |-> <<>>]

\* A faulty variant of _flush: the buffer is flushed but never fsynced.
flush_without_fsync(s) ==
  IF s.fp = "None" THEN s
  ELSE [s EXCEPT !.buffer = <<>>, !.cache = s.cache \o s.buffer]

\* _flush: fp.flush() then os.fsync().
_flush(s) ==
  IF s.fp = "None" THEN s
  ELSE [s EXCEPT !.buffer = <<>>, !.cache = <<>>,
                 !.disk = s.disk \o s.cache \o s.buffer]

\* append: write the line, then _flush.
writer_append(s, record) ==
  _flush([s EXCEPT !.buffer = Append(s.buffer, JsonLine(record))])

\* __exit__: _flush, close, forget the file object.
writer_exit(s) ==
  IF s.fp = "None" THEN s
  ELSE [_flush(s) EXCEPT !.fp = "None"]

\* ------------------------------------------------------------------------
\* main.py
\* ------------------------------------------------------------------------

\* A faulty variant of the blank test: only the empty string is blank.
IsBlankWithoutStrip(raw_content) == raw_content = EmptyStr

\* `not metadata.raw_content.strip()` (process_records, line 47).
IsBlank(raw_content) == strip(raw_content) = EmptyStr

\* A faulty variant of the composition: short_summary is always prepended.
ComposeAlways(prediction) ==
  [prediction EXCEPT !.detailed_summary =
     prediction.short_summary \o <<"\n">> \o prediction.detailed_summary]

\* Lines 52-55 of process_records: short_summary is prepended to
\* detailed_summary when both are truthy.
Compose(prediction) ==
  IF Truthy(prediction.short_summary) /\ Truthy(prediction.detailed_summary)
  THEN [prediction EXCEPT !.detailed_summary =
          prediction.short_summary \o <<"\n">> \o prediction.detailed_summary]
  ELSE prediction

\* NewsMetadata(raw_content=record.get("raw_content", ""), ...), lines 41-46.
MakeNewsMetadata(record) ==
  [kind |-> "NewsMetadata",
   fields |-> [raw_content |-> DictGet(record, "raw_content", EmptyStr),
               release_time |-> DictGet(record, "release_time", NoneValue),
               source_institution |->
                 DictGet(record, "source_institution", NoneValue),
               url |-> DictGet(record, "url", NoneValue)]]

\* ------------------------------------------------------------------------
\* State
\* ------------------------------------------------------------------------

VARIABLES
  \* one call of NewsPipeline.forward
  content,              \* argument content
  metadata,             \* argument metadata
  fpc,                  \* where the call is: idle, classify, extract,
                        \* returned, raised
  classification,       \* classification.category, the raw label
  normalized_category,  \* local normalized_category
  result,               \* the value returned, as it was on return
  classifier_calls,     \* the content of every classifier invocation
  extractor_calls,      \* the arguments of every extractor invocation
  \* main.py
  pc,                   \* where main / process_records is
  compiled_file,        \* best_pipeline.json: exists, and the demos it holds
  pipeline,             \* the NewsPipeline load_pipeline returns
  log,                  \* lines printed
  record,               \* the loop variable of process_records
  trace,                \* the input records consumed so far, each with the
                        \* raw label and normalized category it was given
  written,              \* local written
  sink,                 \* JsonlWriter and its file
  \* optimize.py
  example_file,         \* example.json
  opc,                  \* where optimize.main is
  trainset,             \* local trainset
  teleprompter,         \* the BootstrapFewShot as constructed
  cursor,               \* how many examples compile has run
  bootstrapped,         \* how many demonstrations compile has kept
  lm_calls,             \* model invocations made by the optimizer
  saved_file            \* best_pipeline.json as written by save

ovars == <<example_file, opc, trainset, teleprompter, cursor, bootstrapped,
           lm_calls, saved_file>>

fvars == <<content, metadata, fpc, classification, normalized_category,
           result, classifier_calls, extractor_calls>>

bvars == <<pc, compiled_file, pipeline, log, record, trace, written, sink>>

\* ------------------------------------------------------------------------
\* Inputs
\* ------------------------------------------------------------------------

\* Raw labels the classifier may answer with.
ClassifierLabels ==
  { NoneValue,
    EmptyStr,
    QiTa,
    <<"x">>,
    <<"yan1", "jiu">>,
    YanJiuQianYan,
    <<" ">> \o ZhengCeJiHua \o <<"\n">>,
    <<"x">> \o ChanYeYingYong \o <<"x">> \o YanJiuQianYan }

\* Raw outputs the extractor may answer with.
Titles == { <<"t">>, <<" ", "t", "\n">> }
ShortSummaries == { EmptyStr, <<" ">>, <<"s">>, <<"\t", "s", " ">> }
DetailedSummaries == { EmptyStr, <<"\n">>, <<" ", "d", "\n", "e", "\n">> }

Extractions ==
  [title : Titles, short_summary : ShortSummaries,
   detailed_summary : DetailedSummaries]

\* Article texts.
Contents == { <<"a">>, <<" ", "b">> }
BlankContents == { EmptyStr, <<" ", "\n">> }

\* Input rows of process_records: dicts with raw_content and optional
\* release_time, source_institution, url.
InputRecords ==
  { [release_time |-> <<"r">>] }
  \cup { [raw_content |-> c] : c \in BlankContents }
  \cup { [raw_content |-> <<" ", "b">>],
         [raw_content |-> <<"a">>, release_time |-> <<"r">>,
          source_institution |-> <<"i">>, url |-> <<"u">>] }

\* ------------------------------------------------------------------------
\* NewsPipeline.forward
\* ------------------------------------------------------------------------

\* Lines 71-74: the classifier answers, the label is normalized, and the
\* gate returns None or goes on to the extractor.
ClassifierCall ==
  /\ fpc = "classify"
  /\ \E label \in ClassifierLabels :
       /\ classification' = label
       /\ normalized_category' = _normalize_category(label)
       /\ IF GateAccepts(_normalize_category(label))
          THEN fpc' = "extract" /\ result' = result
          ELSE fpc' = "returned" /\ result' = ReturnNone
  /\ classifier_calls' = Append(classifier_calls, content)
  /\ UNCHANGED <<content, metadata, extractor_calls>>
  /\ UNCHANGED bvars
  /\ UNCHANGED ovars

\* Line 71: the LLM call of the classifier raises.
ClassifierRaises ==
  /\ fpc = "classify"
  /\ fpc' = "raised"
  /\ classifier_calls' = Append(classifier_calls, content)
  /\ UNCHANGED <<content, metadata, classification, normalized_category,
                 result, extractor_calls>>
  /\ UNCHANGED bvars
  /\ UNCHANGED ovars

\* Lines 76-85: the extractor answers and the record is assembled.
ExtractorCall ==
  /\ fpc = "extract"
  /\ \E extraction \in Extractions :
       result' = ReturnDict(DictUpdate(
                   Assemble(normalized_category, extraction),
                   _extract_metadata(metadata, content)))
  /\ extractor_calls' =
       Append(extractor_calls,
              [content |-> content, category |-> normalized_category])
  /\ fpc' = "returned"
  /\ UNCHANGED <<content, metadata, classification, normalized_category,
                 classifier_calls>>
  /\ UNCHANGED bvars
  /\ UNCHANGED ovars

\* Lines 76-81: the LLM call of the extractor raises, or an output it left
\* out is None and its strip() raises.
ExtractorRaises ==
  /\ fpc = "extract"
  /\ fpc' = "raised"
  /\ extractor_calls' =
       Append(extractor_calls,
              [content |-> content, category |-> normalized_category])
  /\ UNCHANGED <<content, metadata, classification, normalized_category,
                 result, classifier_calls>>
  /\ UNCHANGED bvars
  /\ UNCHANGED ovars

\* ------------------------------------------------------------------------
\* main.py: load_pipeline and process_records
\* ------------------------------------------------------------------------

\* NewsPipeline(): no demonstrations, nothing loaded.
NewPipeline == [demos |-> 0, loaded |-> FALSE]

\* A faulty variant of load_pipeline: load is called without the exists() test and
\* raises when the file is absent.
load_pipeline_unguarded(compiled) ==
  IF compiled.exists
  THEN [raised |-> FALSE,
        pipeline |-> [demos |-> compiled.demos, loaded |-> TRUE],
        printed |-> "INFO_loaded"]
  ELSE [raised |-> TRUE, pipeline |-> NewPipeline, printed |-> "none"]

\* load_pipeline (lines 23-30): what it returns and what it prints.
load_pipeline(compiled) ==
  IF compiled.exists
  THEN [raised |-> FALSE,
        pipeline |-> [demos |-> compiled.demos, loaded |-> TRUE],
        printed |-> "INFO_loaded"]
  ELSE [raised |-> FALSE, pipeline |-> NewPipeline, printed |-> "WARN_missing"]

\* main, line 80.
LoadPipeline ==
  /\ pc = "load_pipeline"
  /\ LET r == load_pipeline(compiled_file) IN
       IF r.raised
       THEN /\ pc' = "load_failed"
            /\ UNCHANGED <<pipeline, log>>
       ELSE /\ pc' = "process_records"
            /\ pipeline' = r.pipeline
            /\ log' = Append(log, r.printed)
  /\ UNCHANGED <<compiled_file, record, trace, written, sink>>
  /\ UNCHANGED fvars
  /\ UNCHANGED ovars

\* pipeline.load raises on a file it cannot read (line 26).
LoadPipelineRaises ==
  /\ pc = "load_pipeline"
  /\ compiled_file.exists
  /\ pc' = "load_failed"
  /\ UNCHANGED <<compiled_file, pipeline, log, record, trace, written, sink>>
  /\ UNCHANGED fvars
  /\ UNCHANGED ovars

\* process_records, lines 38-39: written = 0 and the writer is entered.
EnterWriter ==
  /\ pc = "process_records"
  /\ written' = 0
  /\ sink' = writer_enter(sink)
  /\ pc' = "loop"
  /\ UNCHANGED <<compiled_file, pipeline, log, record, trace>>
  /\ UNCHANGED fvars
  /\ UNCHANGED ovars

\* What the trace keeps of an article the loop is done with.
Skipped(rec) ==
  [record |-> rec, classified |-> FALSE, label |-> NoneValue,
   category |-> NoneValue]
Classified(rec, label, category) ==
  [record |-> rec, classified |-> TRUE, label |-> label,
   category |-> category]

\* Lines 40-49: the next record is taken; a blank one is skipped, any other
\* is handed to the pipeline.
NextRecord ==
  /\ pc = "loop"
  /\ Len(trace) < MaxRecords
  /\ \E rec \in InputRecords :
       LET md == MakeNewsMetadata(rec) IN
         /\ record' = rec
         /\ IF IsBlank(md.fields.raw_content)
            THEN /\ trace' = Append(trace, Skipped(rec))
                 /\ pc' = "loop"
                 /\ UNCHANGED <<content, metadata, fpc>>
            ELSE /\ content' = md.fields.raw_content
                 /\ metadata' = md
                 /\ fpc' = "classify"
                 /\ pc' = "in_forward"
                 /\ UNCHANGED trace
  /\ UNCHANGED <<compiled_file, pipeline, log, written, sink>>
  /\ UNCHANGED <<classification, normalized_category, result,
                 classifier_calls, extractor_calls>>
  /\ UNCHANGED ovars

\* Lines 49-57: the pipeline has returned; None is skipped, a prediction is
\* composed and appended to the sink.
HandlePrediction ==
  /\ pc = "in_forward"
  /\ fpc = "returned"
  /\ trace' =
       Append(trace, Classified(record, classification, normalized_category))
  /\ IF result.isNone
     THEN UNCHANGED <<written, sink>>
     ELSE /\ sink' = writer_append(sink, Compose(result.dict))
          /\ written' = written + 1
  /\ pc' = "loop"
  /\ fpc' = "idle"
  /\ UNCHANGED <<compiled_file, pipeline, log, record>>
  /\ UNCHANGED <<content, metadata, classification, normalized_category,
                 result, classifier_calls, extractor_calls>>
  /\ UNCHANGED ovars

\* Line 56: writer.append raises (write, flush or fsync fails).  Of the line
\* in flight nothing, a part, or all has reached the storage; the exception
\* leaves the with block and ends the batch.
AppendRaises ==
  /\ pc = "in_forward"
  /\ fpc = "returned"
  /\ ~result.isNone
  /\ \E tail \in { <<>>, <<TornLine(Compose(result.dict))>>,
                   <<JsonLine(Compose(result.dict))>> } :
       sink' = ClosedSink(sink.disk \o sink.cache \o tail)
  /\ pc' = "failed"
  /\ fpc' = "idle"
  /\ UNCHANGED <<compiled_file, pipeline, log, record, trace, written>>
  /\ UNCHANGED <<content, metadata, classification, normalized_category,
                 result, classifier_calls, extractor_calls>>
  /\ UNCHANGED ovars

\* Line 49: the pipeline raised; the exception leaves the with block through
\* __exit__ and ends the batch.
PipelineRaised ==
  /\ pc = "in_forward"
  /\ fpc = "raised"
  /\ sink' = writer_exit(sink)
  /\ pc' = "failed"
  /\ fpc' = "idle"
  /\ UNCHANGED <<compiled_file, pipeline, log, record, trace, written>>
  /\ UNCHANGED <<content, metadata, classification, normalized_category,
                 result, classifier_calls, extractor_calls>>
  /\ UNCHANGED ovars

\* Lines 40 and 58: the records are exhausted, the writer is left and the
\* count is printed.
EndOfRecords ==
  /\ pc = "loop"
  /\ sink' = writer_exit(sink)
  /\ log' = Append(log, "INFO_written")
  /\ pc' = "done"
  /\ UNCHANGED <<compiled_file, pipeline, record, trace, written>>
  /\ UNCHANGED fvars
  /\ UNCHANGED ovars

\* ------------------------------------------------------------------------
\* optimize.py
\* ------------------------------------------------------------------------

\* The cap of max_bootstrapped_demos=min(4, len(trainset)).
BootstrapCap == 4

Min(a, b) == IF a <= b THEN a ELSE b

ExampleKeys ==
  {"content", "category", "title", "short_summary", "detailed_summary"}

\* A labelled example, and an item that lacks a key.
ExampleItem(category) ==
  [content |-> <<"a">>, category |-> category, title |-> <<"t">>,
   short_summary |-> <<"s">>, detailed_summary |-> <<"d">>]
BrokenItem == [content |-> <<"a">>, category |-> QiTa]

ExampleItems == { ExampleItem(YanJiuQianYan), ExampleItem(QiTa), BrokenItem }

RECURSIVE SeqsUpTo(_, _)
SeqsUpTo(S, n) ==
  IF n = 0 THEN { <<>> }
  ELSE LET shorter == SeqsUpTo(S, n - 1) IN
         shorter \cup { Append(q, x) : q \in shorter, x \in S }

\* example.json: absent, not JSON, one JSON object, or a JSON list.
ExampleFiles ==
  { [exists |-> FALSE, json |-> "none", data |-> <<>>],
    [exists |-> TRUE, json |-> "invalid", data |-> <<>>] }
  \cup { [exists |-> TRUE, json |-> "dict", data |-> <<item>>] :
           item \in ExampleItems }
  \cup { [exists |-> TRUE, json |-> "list", data |-> items] :
           items \in SeqsUpTo(ExampleItems, MaxExamples) }

\* load_training_examples (lines 20-38): a missing file, unparseable JSON or
\* an item without one of the five keys raises; a dict is one example.
load_training_examples(file) ==
  IF ~file.exists THEN [raised |-> "FileNotFoundError", examples |-> <<>>]
  ELSE IF file.json = "invalid"
  THEN [raised |-> "JSONDecodeError", examples |-> <<>>]
  ELSE IF \E k \in 1..Len(file.data) : ~(ExampleKeys \subseteq DOMAIN file.data[k])
  THEN [raised |-> "KeyError", examples |-> <<>>]
  ELSE [raised |-> "none", examples |-> file.data]

\* _safe_get(pred, field) where pred is what the pipeline returned.
_safe_get(pred, field) ==
  IF pred.isNone THEN NoneValue ELSE DictGet(pred.dict, field, NoneValue)

\* evaluation_metric (lines 41-44).
evaluation_metric(gold, pred) ==
  /\ _safe_get(pred, "category") = gold.category
  /\ Truthy(_safe_get(pred, "detailed_summary"))

\* What the pipeline may predict for an example during compile.
CompilePredictions ==
  { ReturnNone }
  \cup { ReturnDict([category |-> c, detailed_summary |-> d]) :
           c \in {YanJiuQianYan, ChanYeYingYong},
           d \in {EmptyStr, <<"d">>} }

\* main, line 54.
LoadTrainingExamples ==
  /\ opc = "load"
  /\ LET r == load_training_examples(example_file) IN
       IF r.raised # "none"
       THEN opc' = "failed" /\ UNCHANGED trainset
       ELSE opc' = "loaded" /\ trainset' = r.examples
  /\ UNCHANGED <<example_file, teleprompter, cursor, bootstrapped, lm_calls,
                 saved_file>>
  /\ UNCHANGED fvars
  /\ UNCHANGED bvars

\* main, lines 55-60: the pipeline and the BootstrapFewShot are constructed.
MakeTeleprompter ==
  /\ opc = "loaded"
  /\ teleprompter' =
       [max_bootstrapped_demos |-> Min(BootstrapCap, Len(trainset)),
        max_labeled_demos |-> Len(trainset)]
  /\ opc' = "compile"
  /\ UNCHANGED <<example_file, trainset, cursor, bootstrapped, lm_calls,
                 saved_file>>
  /\ UNCHANGED fvars
  /\ UNCHANGED bvars

\* main, line 61, teleprompter.compile: the pipeline is run on the next
\* example; the trace is kept as a demonstration when the metric accepts it.
CompileStep ==
  /\ opc = "compile"
  /\ cursor < Len(trainset)
  /\ bootstrapped < teleprompter.max_bootstrapped_demos
  /\ \E pred \in CompilePredictions :
       bootstrapped' =
         IF evaluation_metric(trainset[cursor + 1], pred)
         THEN bootstrapped + 1 ELSE bootstrapped
  /\ cursor' = cursor + 1
  /\ lm_calls' = lm_calls + 1
  /\ UNCHANGED <<example_file, opc, trainset, teleprompter, saved_file>>
  /\ UNCHANGED fvars
  /\ UNCHANGED bvars

\* main, lines 61-63: compile is over and the compiled pipeline is saved.
SaveCompiled ==
  /\ opc = "compile"
  /\ ~(/\ cursor < Len(trainset)
       /\ bootstrapped < teleprompter.max_bootstrapped_demos)
  /\ saved_file' = [exists |-> TRUE, demos |-> bootstrapped]
  /\ opc' = "done"
  /\ UNCHANGED <<example_file, trainset, teleprompter, cursor, bootstrapped,
                 lm_calls>>
  /\ UNCHANGED fvars
  /\ UNCHANGED bvars

\* A line left in the output file by an earlier run.
OldLine ==
  JsonLine([category |-> ZhengCeJiHua, title |-> <<"o">>, short_summary |-> EmptyStr,
            detailed_summary |-> EmptyStr, raw_content |-> <<"o">>,
            release_time |-> NoneValue, source_institution |-> NoneValue,
            url |-> NoneValue])

CompiledFiles ==
  { [exists |-> FALSE, demos |-> 0] }
  \cup { [exists |-> TRUE, demos |-> d] : d \in 1..MaxSavedDemos }

IdleForward ==
  /\ content = EmptyStr
  /\ metadata = [kind |-> "None"]
  /\ classification = NoneValue
  /\ normalized_category = NoneValue
  /\ result = ReturnNone
  /\ classifier_calls = <<>>
  /\ extractor_calls = <<>>

IdleOptimizer ==
  /\ example_file = [exists |-> FALSE, json |-> "none", data |-> <<>>]
  /\ opc = "idle"
  /\ trainset = <<>>
  /\ teleprompter = [max_bootstrapped_demos |-> 0, max_labeled_demos |-> 0]
  /\ cursor = 0
  /\ bootstrapped = 0
  /\ lm_calls = 0
  /\ saved_file = [exists |-> FALSE, demos |-> 0]

IdleBatch ==
  /\ pc = "idle"
  /\ compiled_file = [exists |-> FALSE, demos |-> 0]
  /\ pipeline = NewPipeline
  /\ log = <<>>
  /\ record = <<>>
  /\ trace = <<>>
  /\ written = 0
  /\ sink = ClosedSink(<<>>)

\* main.py run as a script.
Init ==
  /\ IdleForward
  /\ IdleOptimizer
  /\ fpc = "idle"
  /\ pc = "load_pipeline"
  /\ compiled_file \in CompiledFiles
  /\ pipeline = NewPipeline
  /\ log = <<>>
  /\ record = <<>>
  /\ trace = <<>>
  /\ written = 0
  /\ sink \in { ClosedSink(<<>>), ClosedSink(<<OldLine>>) }

Next ==
  \/ LoadPipeline
  \/ LoadPipelineRaises
  \/ EnterWriter
  \/ NextRecord
  \/ ClassifierCall
  \/ ClassifierRaises
  \/ ExtractorCall
  \/ ExtractorRaises
  \/ HandlePrediction
  \/ AppendRaises
  \/ PipelineRaised
  \/ EndOfRecords

vars == <<fvars, bvars, ovars>>

Spec == Init /\ [][Next]_vars

\* optimize.py run as a script.
InitOptimize ==
  /\ IdleForward
  /\ fpc = "idle"
  /\ IdleBatch
  /\ example_file \in ExampleFiles
  /\ opc = "load"
  /\ trainset = <<>>
  /\ teleprompter = [max_bootstrapped_demos |-> 0, max_labeled_demos |-> 0]
  /\ cursor = 0
  /\ bootstrapped = 0
  /\ lm_calls = 0
  /\ saved_file = [exists |-> FALSE, demos |-> 0]

NextOptimize ==
  \/ LoadTrainingExamples
  \/ MakeTeleprompter
  \/ CompileStep
  \/ SaveCompiled

SpecOptimize == InitOptimize /\ [][NextOptimize]_vars

\* One direct call of NewsPipeline.forward(content, metadata).
DirectMetadata ==
  { [kind |-> "None"] }
  \cup { [kind |-> "NewsMetadata",
          fields |-> [raw_content |-> <<"m">>, release_time |-> r,
                      source_institution |-> NoneValue, url |-> <<"u">>]] :
           r \in {NoneValue, <<"r">>} }
  \cup { [kind |-> "Mapping", fields |-> [k \in K |-> <<k>>]] :
           K \in SUBSET MetaKeys }

InitForward ==
  /\ content \in Contents
  /\ metadata \in DirectMetadata
  /\ fpc = "classify"
  /\ classification = NoneValue
  /\ normalized_category = NoneValue
  /\ result = ReturnNone
  /\ classifier_calls = <<>>
  /\ extractor_calls = <<>>
  /\ IdleBatch
  /\ IdleOptimizer

NextForward ==
  \/ ClassifierCall
  \/ ClassifierRaises
  \/ ExtractorCall
  \/ ExtractorRaises

SpecForward == InitForward /\ [][NextForward]_vars

\* _normalize_category applied to one raw label.
LabelPieces ==
  { YanJiuQianYan, ChanYeYingYong, ZhengCeJiHua, QiTa, <<" ">>, <<"x">>,
    <<"yan1", "jiu">>, <<"qian", "yan2">> }

RECURSIVE Concatenations(_)
Concatenations(n) ==
  IF n = 0 THEN { EmptyStr }
  ELSE LET shorter == Concatenations(n - 1) IN
         shorter \cup { q \o piece : q \in shorter, piece \in LabelPieces }

RawLabels == { NoneValue } \cup Concatenations(MaxPieces)

Normalize ==
  /\ fpc = "normalize"
  /\ normalized_category' = _normalize_category(classification)
  /\ fpc' = "normalized"
  /\ UNCHANGED <<content, metadata, classification, result, classifier_calls,
                 extractor_calls>>
  /\ UNCHANGED bvars
  /\ UNCHANGED ovars

InitNormalize ==
  /\ content = EmptyStr
  /\ metadata = [kind |-> "None"]
  /\ fpc = "normalize"
  /\ classification \in RawLabels
  /\ normalized_category = NoneValue
  /\ result = ReturnNone
  /\ classifier_calls = <<>>
  /\ extractor_calls = <<>>
  /\ IdleBatch
  /\ IdleOptimizer

NextNormalize == Normalize

SpecNormalize == InitNormalize /\ [][NextNormalize]_vars

\* ------------------------------------------------------------------------
\* Properties
\* ------------------------------------------------------------------------

\* name occurs in label as a contiguous run of characters.
Contains(label, name) ==
  \E k \in 1..(Len(label) - Len(name) + 1) :
    SubSeq(label, k, k + Len(name) - 1) = name

\* The classifier has answered in the current forward call.
ClassifierAnswered ==
  \/ fpc \in {"extract", "returned"}
  \/ extractor_calls # <<>>

\* C1 (gate enforcement): in a call of forward whose classifier label
\* normalizes to "other", the call returns None and the extractor is never
\* invoked; every extractor invocation follows a label that normalizes to
\* one of the three target categories and is made with that category.
C1_GateEnforcement ==
  /\ (ClassifierAnswered /\ _normalize_category(classification) = QiTa)
       => /\ fpc = "returned"
          /\ result.isNone
          /\ extractor_calls = <<>>
  /\ \A k \in 1..Len(extractor_calls) :
       /\ ClassifierAnswered
       /\ _normalize_category(classification) \in TargetSet
       /\ extractor_calls[k].category = _normalize_category(classification)

\* A call whose label "x" names no target has returned None after one
\* classifier invocation and no extractor invocation.
C1_Witness ==
  /\ fpc = "returned"
  /\ classification = <<"x">>
  /\ result.isNone
  /\ Len(classifier_calls) = 1
  /\ extractor_calls = <<>>

\* C3 (gate correctness): _normalize_category(L) is a target category
\* exactly when L contains that category's name and no target earlier in the
\* priority order occurs in L; a missing or empty label, and a label
\* containing no target name, give "other".
C3_GateCorrectness ==
  fpc = "normalized" =>
    LET L == classification
        out == normalized_category
        Has(k) == L # NoneValue /\ Contains(L, TARGET_CATEGORIES[k])
    IN /\ out \in TargetSet \cup {QiTa}
       /\ \A k \in 1..Len(TARGET_CATEGORIES) :
            (out = TARGET_CATEGORIES[k])
              <=> (Has(k) /\ \A j \in 1..(k - 1) : ~Has(j))
       /\ (L = NoneValue \/ L = EmptyStr
             \/ \A k \in 1..Len(TARGET_CATEGORIES) : ~Has(k))
            => out = QiTa

\* A label naming the policy category before the industry category is
\* normalized to the industry category, which comes first in the order.
C3_Witness ==
  /\ fpc = "normalized"
  /\ classification = ZhengCeJiHua \o <<" ">> \o ChanYeYingYong
  /\ normalized_category = ChanYeYingYong

\* An article of the trace that the gate accepted.
Accepted(e) == e.classified /\ e.category \in TargetSet

AcceptedArticles == SelectSeq(trace, Accepted)

\* Every line the sink holds, wherever it is.
SinkLines == sink.disk \o sink.cache \o sink.buffer

\* The k-th stored line is the record of the k-th accepted article.
LineIsArticle(k) ==
  LET line == sink.disk[k]
      e == AcceptedArticles[k]
  IN /\ line.json.category = e.category
     /\ line.json.raw_content = DictGet(e.record, "raw_content", EmptyStr)
     /\ line.json.release_time = DictGet(e.record, "release_time", NoneValue)
     /\ line.json.url = DictGet(e.record, "url", NoneValue)

\* C2 (sink invariant): no record of the sink ever has category "other";
\* between two articles and at the end of the batch the sink holds exactly
\* one record per article whose normalized category is a target category;
\* an article labelled "other", empty, None or with no target name has none.
C2_SinkInvariant ==
  /\ \A k \in 1..Len(SinkLines) : SinkLines[k].json.category \in TargetSet
  /\ pc \in {"loop", "done"} =>
       /\ Len(sink.disk) = Len(AcceptedArticles)
       /\ \A k \in 1..Len(sink.disk) : LineIsArticle(k)
  /\ \A k \in 1..Len(trace) :
       (/\ trace[k].classified
        /\ trace[k].label \in {NoneValue, EmptyStr, QiTa, <<"x">>})
         => ~Accepted(trace[k])

\* A finished batch of one rejected and one accepted article has written
\* exactly the accepted one.
C2_Witness ==
  /\ pc = "done"
  /\ Len(trace) = 2
  /\ trace[1].classified /\ trace[1].label = QiTa
  /\ trace[2].classified /\ trace[2].category = YanJiuQianYan
  /\ Len(sink.disk) = 1
  /\ sink.disk[1].json.category = YanJiuQianYan

\* The article the loop has just finished was classified and its prediction
\* appended to the sink.
JustWritten ==
  /\ pc = "loop"
  /\ trace # <<>>
  /\ trace[Len(trace)].classified
  /\ ~result.isNone

\* C4 (field composition): with S and D the short_summary and
\* detailed_summary of the prediction the pipeline returned, the written
\* record's detailed_summary is S + "\n" + D when both are non-empty, and D
\* unchanged when either is empty.
C4_FieldComposition ==
  JustWritten =>
    LET S == result.dict.short_summary
        D == result.dict.detailed_summary
        W == sink.disk[Len(sink.disk)].json.detailed_summary
    IN /\ (S # EmptyStr /\ D # EmptyStr) => W = S \o <<"\n">> \o D
       /\ (S = EmptyStr \/ D = EmptyStr) => W = D

\* Two records are in the sink: one composed from both summaries, and one
\* with an empty short_summary whose detailed_summary has no leading newline.
C4_Witness ==
  /\ JustWritten
  /\ Len(sink.disk) = 2
  /\ sink.disk[1].json.short_summary = <<"s">>
  /\ sink.disk[1].json.detailed_summary = <<"s", "\n", "d", "\n", "e">>
  /\ sink.disk[2].json.short_summary = EmptyStr
  /\ sink.disk[2].json.detailed_summary = <<"d", "\n", "e">>

\* C6 (durable ordered sink): while the batch runs, and when it has ended,
\* the storage holds one complete line per accepted article processed so
\* far, in input order, and nothing is left in a buffer or cache; after a
\* failed LLM call or write those lines are still there, complete, followed
\* by at most the line in flight.
C6_DurableOrderedSink ==
  /\ pc \in {"loop", "in_forward", "done"} =>
       /\ sink.buffer = <<>>
       /\ sink.cache = <<>>
       /\ Len(sink.disk) = Len(AcceptedArticles)
       /\ \A k \in 1..Len(sink.disk) :
            sink.disk[k].newline /\ LineIsArticle(k)
  /\ pc = "failed" =>
       /\ Len(AcceptedArticles) <= Len(sink.disk)
       /\ Len(sink.disk) <= Len(AcceptedArticles) + 1
       /\ \A k \in 1..Len(AcceptedArticles) :
            sink.disk[k].newline /\ LineIsArticle(k)

\* A write failed on the second accepted article: the first line is
\* complete and the second is torn.
C6_Witness ==
  /\ pc = "failed"
  /\ Len(AcceptedArticles) = 1
  /\ Len(sink.disk) = 2
  /\ sink.disk[1].newline
  /\ ~sink.disk[2].newline

\* No whitespace at either end.
Trimmed(str) ==
  str = EmptyStr \/ (~IsSpace(str[1]) /\ ~IsSpace(str[Len(str)]))

TrimmedFields(d) ==
  /\ Trimmed(d.title)
  /\ Trimmed(d.short_summary)
  /\ Trimmed(d.detailed_summary)

\* C7 (trimmed output fields): title, short_summary and detailed_summary of
\* every record forward returns and of every record in the sink have no
\* leading or trailing whitespace.
C7_TrimmedFields ==
  /\ ~result.isNone => TrimmedFields(result.dict)
  /\ \A k \in 1..Len(SinkLines) : TrimmedFields(SinkLines[k].json)

\* A written record whose detailed_summary can only come from the extractor
\* output " d\ne\n", with short_summary prepended.
C7_Witness ==
  /\ JustWritten
  /\ result.dict.detailed_summary = <<"d", "\n", "e">>
  /\ sink.disk[Len(sink.disk)].json.detailed_summary
       = <<"s", "\n", "d", "\n", "e">>

\* C8 (metadata fallback): a record returned for metadata=None has
\* raw_content equal to the input content and None for release_time,
\* source_institution and url; with metadata the four fields are those of
\* the metadata, a missing key giving None, and a missing raw_content key
\* giving the input content.
C8_MetadataFallback ==
  (fpc = "returned" /\ ~result.isNone) =>
    LET d == result.dict IN
      IF metadata.kind = "None"
      THEN /\ d.raw_content = content
           /\ d.release_time = NoneValue
           /\ d.source_institution = NoneValue
           /\ d.url = NoneValue
      ELSE /\ \A key \in MetaKeys \ {"raw_content"} :
                d[key] = IF key \in DOMAIN metadata.fields
                         THEN metadata.fields[key] ELSE NoneValue
           /\ d.raw_content = IF "raw_content" \in DOMAIN metadata.fields
                              THEN metadata.fields.raw_content ELSE content

\* A record returned by forward(content, metadata=None).
C8_Witness ==
  /\ fpc = "returned"
  /\ ~result.isNone
  /\ metadata.kind = "None"
  /\ content = <<" ", "b">>
  /\ result.dict.raw_content = <<" ", "b">>
  /\ result.dict.url = NoneValue

\* Some character is not whitespace.
NonBlank(str) == \E k \in 1..Len(str) : ~IsSpace(str[k])

ClassifiedCount == Cardinality({k \in 1..Len(trace) : trace[k].classified})

\* C9 (blank-content skip): the classifier is only ever invoked with
\* non-blank content; a record whose raw_content is empty, whitespace-only
\* or absent causes no classifier or extractor invocation and no write, and
\* the loop goes on.
C9_BlankSkip ==
  /\ \A k \in 1..Len(classifier_calls) : NonBlank(classifier_calls[k])
  /\ \A k \in 1..Len(extractor_calls) : NonBlank(extractor_calls[k].content)
  /\ \A k \in 1..Len(trace) :
       ~NonBlank(DictGet(trace[k].record, "raw_content", EmptyStr))
         => ~trace[k].classified
  /\ pc \in {"loop", "done"} =>
       /\ Len(classifier_calls) = ClassifiedCount
       /\ Len(sink.disk) <= ClassifiedCount

\* A whitespace-only record was skipped and the record after it was
\* classified and written.
C9_Witness ==
  /\ pc = "loop"
  /\ Len(trace) = 2
  /\ trace[1].record = [raw_content |-> <<" ", "\n">>]
  /\ ~trace[1].classified
  /\ trace[2].classified
  /\ Len(classifier_calls) = 1
  /\ Len(sink.disk) = 1

\* C10 (compiled-state load fallback): when best_pipeline.json is absent,
\* load_pipeline does not fail and loads nothing: it prints the warning and
\* returns a pipeline without demonstrations; a pipeline is loaded only
\* from a file that exists.
C10_LoadFallback ==
  /\ (~compiled_file.exists /\ pc # "load_pipeline") =>
       /\ pc # "load_failed"
       /\ pipeline = [demos |-> 0, loaded |-> FALSE]
       /\ Len(log) >= 1 /\ log[1] = "WARN_missing"
  /\ pipeline.loaded =>
       /\ compiled_file.exists
       /\ pipeline.demos = compiled_file.demos
       /\ log[1] = "INFO_loaded"

\* Without best_pipeline.json the batch ran to its end with the unoptimized
\* pipeline and wrote a record.
C10_Witness ==
  /\ ~compiled_file.exists
  /\ pc = "done"
  /\ ~pipeline.loaded
  /\ pipeline.demos = 0
  /\ written = 1

\* C5 (optimizer bound): the bootstrapping bound is min(4, N) for an example
\* set of size N, never more demonstrations are kept, and with an empty
\* example set the optimizer has failed before the teleprompter is built
\* and before any model invocation.
C5_OptimizerBound ==
  /\ opc \in {"compile", "done"} =>
       /\ teleprompter.max_bootstrapped_demos
            = Min(BootstrapCap, Len(trainset))
       /\ bootstrapped <= BootstrapCap
       /\ bootstrapped <= Len(trainset)
  /\ (example_file.exists /\ example_file.json = "list"
        /\ example_file.data = <<>> /\ opc # "load")
       => (opc = "failed" /\ lm_calls = 0)

=============================================================================
